---- MODULE Spec2Model ----
(***************************************************************************)
(* The staged render pipeline of maplibre-rs and its view-driven upload of *)
(* tessellated tile geometry to the GPU buffer pool.                       *)
(*                                                                         *)
(*   render/stages/mod.rs           register_render_stages, PrepareStage   *)
(*   render/stages/upload_stage.rs  UploadStage::run and its helpers       *)
(*                                                                         *)
(* The tile cache, the buffer pool, the tile view pattern, the resource    *)
(* stage and the schedule runtime are collaborators whose code is outside  *)
(* these files; they are modelled by their contracts.                      *)
(***************************************************************************)
EXTENDS Integers, Sequences, FiniteSets, TLC

VARIABLES
    style,               \* MapContext.style: the ordered style layers
    tile_cache,          \* MapContext.tile_cache: coords -> inserted messages
    camera,              \* MapContext.view_state, as far as the view region goes
    buffer_pool,         \* RenderState.buffer_pool: the Eventually tag
    pool_index,          \* the pool's index: coords -> resident layer names
    tile_view_pattern,   \* RenderState.tile_view_pattern: the Eventually tag
    pattern,             \* the pattern's tiles in view, as last updated
    globals_bind_group,  \* RenderState.globals_bind_group: the Eventually tag
    alloc_count,         \* allocate_layer_geometry calls per (coords, style
                         \* layer index) since the tile was last evicted
    stable,              \* the last Upload run had an Initialized pool and
                         \* nothing changed the world since
    pc,                  \* <<stage, sub-stage>> of the schedule to run next
    executed,            \* labels of the stages completed in this tick
    run,                 \* what the Upload run that just ended saw and did
    builder,             \* MapBuilder: which optional fields were supplied
    map                  \* what became of the builder: the map's life cycle

vars == <<style, tile_cache, camera, buffer_pool, pool_index, tile_view_pattern,
          pattern, globals_bind_group, alloc_count, stable, pc, executed, run,
          builder, map>>

----------------------------------------------------------------------------
(* Domains *)

\* Option<T>: None of strings is the string "None"; None of collections is a
\* record that is not Some.
None == "None"
Some(v) == [is_some |-> TRUE, value |-> v]
NoSeq == [is_some |-> FALSE, value |-> <<>>]
NoSet == [is_some |-> FALSE, value |-> {}]

Tiles == {"T1", "T2", "T3"}

LayerNames == {"water", "roads"}

\* Cap of the allocation counters.
MaxAllocCount == 3

\* Number of layer results the tessellation pipeline delivers in a behaviour.
MaxCacheLayers == 2

\* Eventually<T>: render/util, used at upload_stage.rs:46,162,179
Uninitialized == "Uninitialized"
Initializing == "Initializing"
Initialized == "Initialized"
Eventually == {Uninitialized, Initializing, Initialized}

\* style::layer::StyleLayer as read by the upload stage: index, source_layer
\* (an Option) and the paint's colour (an Option).
StyleLayer(i, src, col) == [index |-> i, source_layer |-> src, color |-> col]

\* The styles of the model: the style collaborator gives every layer a source
\* layer; the paint colour is optional. One layer, two layers of different
\* source layers, two layers of the same source layer, one layer without a
\* paint colour.
Styles ==
    { <<StyleLayer(0, "water", "c0")>>,
      <<StyleLayer(0, "water", "c0"), StyleLayer(1, "roads", "c1")>>,
      <<StyleLayer(0, "water", "c0"), StyleLayer(1, "water", "c1")>>,
      <<StyleLayer(0, "water", None)>> }

StyleIndexes == {0, 1}

\* The per-feature index counts the tessellator produced for a layer of a
\* tile; layer_data.features has one feature per count.
FeatureIndicesOf(coords, layer_name) ==
    IF layer_name = "roads" THEN <<1>>
    ELSE IF coords = "T1" THEN <<2, 3>>
    ELSE IF coords = "T2" THEN <<>>
    ELSE <<0, 2>>

\* io::LayerTessellateMessage
TessellatedLayer(coords, layer_name) ==
    [kind |-> "TessellatedLayer", coords |-> coords, layer_name |-> layer_name,
     feature_indices |-> FeatureIndicesOf(coords, layer_name)]

UnavailableLayer(coords, layer_name) ==
    [kind |-> "UnavailableLayer", coords |-> coords, layer_name |-> layer_name,
     feature_indices |-> <<>>]

Messages ==
    {TessellatedLayer(t, n) : t \in Tiles, n \in LayerNames}
        \cup {UnavailableLayer(t, n) : t \in Tiles, n \in LayerNames}

\* Camera states: a degenerate one, for which view_region_bounding_box is
\* None, and two with a bounding box.
Cameras == {"degenerate", "west", "east"}

\* camera.view_region_bounding_box(..).map(ViewRegion::new(..)) followed by
\* ViewRegion::iter: the tiles in view, in iteration order.
ViewRegionOf(cam) ==
    IF cam = "west" THEN Some(<<"T1", "T2">>)
    ELSE IF cam = "east" THEN Some(<<"T2", "T3">>)
    ELSE NoSeq

Range(s) == {s[i] : i \in 1..Len(s)}

Min(a, b) == IF a < b THEN a ELSE b

----------------------------------------------------------------------------
(* Collaborators of the upload stage *)

\* TileCache::iter_tessellated_layers_at: None for a tile without an entry.
iter_tessellated_layers_at(cache, coords) ==
    IF cache[coords] = <<>> THEN NoSeq ELSE Some(cache[coords])

\* BufferPool::get_loaded_layers_at: the resident layer names of a tile, None
\* for a tile the index does not hold.
get_loaded_layers_at(index, coords) ==
    IF index[coords] = {} THEN NoSet ELSE Some(index[coords])

\* BufferPool::allocate_layer_geometry on the index: the layer becomes
\* resident at coords, once.
allocate_layer_geometry(index, coords, layer_name) ==
    [index EXCEPT ![coords] = @ \cup {layer_name}]

\* TileViewPattern::update_pattern: the tiles of the view region that have
\* geometry in the pool.
update_pattern(view_region, index) ==
    {t \in Range(view_region.value) : index[t] # {}}

----------------------------------------------------------------------------
(* UploadStage *)

\* upload_stage.rs:223-233: the colour repeated feature_indices[i] times for
\* each feature i, flattened.
\* feature_metadata with one entry per feature instead of one per index.
feature_metadata_per_feature(feature_indices, color) ==
    [i \in 1..Len(feature_indices) |-> color]

RECURSIVE feature_metadata(_, _)
feature_metadata(feature_indices, color) ==
    IF feature_indices = <<>> THEN <<>>
    ELSE [i \in 1..Head(feature_indices) |-> color]
             \o feature_metadata(Tail(feature_indices), color)

\* loaded_layers with a lookup that always misses, so that the default is
\* taken for every tile.
loaded_layers_missed(index, world_coords) == {}

\* upload_stage.rs:182-184
loaded_layers(index, world_coords) ==
    LET loaded == get_loaded_layers_at(index, world_coords)
    IN  IF loaded.is_some THEN loaded.value ELSE {}

\* available_layers without the filter of line 189.
available_layers_unfiltered(layers, loaded) == layers

\* available_layers with the filter of line 189 on the wrong field.
available_layers_by_coords(layers, loaded) ==
    SelectSeq(layers, LAMBDA result : result.coords \notin loaded)

\* upload_stage.rs:187-191: the cached results of the tile whose layer is not
\* loaded.
available_layers(layers, loaded) ==
    SelectSeq(layers, LAMBDA result : result.layer_name \notin loaded)

\* find that takes the first available result, whatever its layer name.
find_first(available, source_layer) ==
    IF available = <<>> THEN <<>> ELSE <<Head(available)>>

\* upload_stage.rs:196-198: the first available result of that layer name,
\* as a sequence of at most one message.
find(available, source_layer) ==
    LET hits == SelectSeq(available, LAMBDA layer : source_layer = layer.layer_name)
    IN  IF hits = <<>> THEN <<>> ELSE <<Head(hits)>>

\* upload_stage.rs:193-247: one iteration of the loop over style.layers.
\* acc: [index, allocs, count, reported, panic].
upload_style_layer(acc, available, style_layer) ==
    IF acc.panic # None THEN acc
    ELSE IF style_layer.source_layer = None
    THEN [acc EXCEPT !.panic = "source_layer.unwrap"]
    ELSE
        LET found == find(available, style_layer.source_layer)
            message == Head(found)
        IN  IF found = <<>> THEN acc
            ELSE IF message.kind = "UnavailableLayer" THEN acc
            ELSE IF style_layer.color = None /\ message.feature_indices # <<>>
            THEN [acc EXCEPT !.panic = "color.unwrap"]
            ELSE
                [acc EXCEPT
                    !.index = allocate_layer_geometry(
                                  @, message.coords, style_layer.source_layer),
                    !.allocs = Append(@,
                        [coords |-> message.coords,
                         layer_name |-> message.layer_name,
                         style_layer |-> style_layer.index,
                         feature_metadata |->
                             feature_metadata(message.feature_indices,
                                              style_layer.color)]),
                    !.count[message.coords][style_layer.index] =
                        Min(@ + 1, MaxAllocCount)]

RECURSIVE upload_style_layers(_, _, _)
upload_style_layers(acc, available, layers) ==
    IF layers = <<>> THEN acc
    ELSE upload_style_layers(upload_style_layer(acc, available, Head(layers)),
                             available, Tail(layers))

\* upload_tile that unwraps the cache's answer instead of matching it.
upload_tile_unwrapping(acc, cache, st, world_coords) ==
    IF acc.panic # None THEN acc
    ELSE
        LET loaded == loaded_layers(acc.index, world_coords)
            layers == iter_tessellated_layers_at(cache, world_coords)
            seen   == [acc EXCEPT !.reported[world_coords] = loaded,
                                  !.visited = Append(@, world_coords)]
        IN  IF ~layers.is_some
            THEN [seen EXCEPT !.panic = "iter_tessellated_layers_at.unwrap"]
            ELSE upload_style_layers(
                     seen, available_layers(layers.value, loaded), st)

\* upload_stage.rs:181-249: one iteration of the loop over the view region.
upload_tile(acc, cache, st, world_coords) ==
    IF acc.panic # None THEN acc
    ELSE
        LET loaded == loaded_layers(acc.index, world_coords)
            layers == iter_tessellated_layers_at(cache, world_coords)
            seen   == [acc EXCEPT !.reported[world_coords] = loaded,
                                  !.visited = Append(@, world_coords)]
        IN  IF ~layers.is_some THEN seen
            ELSE upload_style_layers(
                     seen, available_layers(layers.value, loaded), st)

RECURSIVE upload_tiles(_, _, _, _)
upload_tiles(acc, cache, st, region) ==
    IF region = <<>> THEN acc
    ELSE upload_tiles(upload_tile(acc, cache, st, Head(region)),
                      cache, st, Tail(region))

\* tiles_to_upload walking every tile of the world instead of the view region.
tiles_to_upload_world(view_region) == <<"T1", "T2", "T3">>

\* The tiles upload_tile_geometry visits: upload_stage.rs:181.
tiles_to_upload(view_region) == view_region.value

\* upload_tile_geometry that first drops the pool's tiles outside the view
\* region.
upload_tile_geometry_retaining(acc, pool_state, cache, st, view_region) ==
    IF pool_state = Initialized
    THEN upload_tiles(
             [acc EXCEPT !.index =
                 [t \in Tiles |-> IF t \in Range(view_region.value)
                                  THEN acc.index[t] ELSE {}]],
             cache, st, tiles_to_upload(view_region))
    ELSE acc

\* upload_tile_geometry with a guard that only rejects Uninitialized.
upload_tile_geometry_early(acc, pool_state, cache, st, view_region) ==
    IF pool_state # Uninitialized
    THEN upload_tiles(acc, cache, st, tiles_to_upload(view_region))
    ELSE acc

\* UploadStage::upload_tile_geometry, upload_stage.rs:171-252
upload_tile_geometry(acc, pool_state, cache, st, view_region) ==
    IF pool_state = Initialized
    THEN upload_tiles(acc, cache, st, tiles_to_upload(view_region))
    ELSE acc

\* UploadStage::update_tile_view_pattern, upload_stage.rs:150-168: whether the
\* pattern is updated and uploaded.
pattern_guard(tvp_state, pool_state) ==
    tvp_state = Initialized /\ pool_state = Initialized

\* globals_guard with the write moved into the block of line 69.
globals_guard_in_view(globals_state) ==
    globals_state = Initialized /\ ViewRegionOf(camera).is_some

\* upload_stage.rs:46: whether the globals are written.
globals_guard(globals_state) == globals_state = Initialized

\* has_view_region with the missing region defaulted to an empty one.
has_view_region_defaulted(view_region) == TRUE

\* upload_stage.rs:64-69: whether the frame has a view region.
has_view_region(view_region) == view_region.is_some

\* index_seen_by_pattern with the pattern updated before the geometry upload.
index_seen_by_pattern_early(before, after) == before

\* upload_stage.rs:72-73: update_tile_view_pattern runs after
\* upload_tile_geometry and reads the pool it left.
index_seen_by_pattern(before, after) == after

NoReport == [t \in Tiles |-> {}]

NoRun ==
    [ran |-> FALSE, view_region |-> NoSeq, stable |-> FALSE,
     index_before |-> [t \in Tiles |-> {}], pattern_before |-> {},
     visited |-> <<>>, reported |-> NoReport, allocs |-> <<>>, globals_writes |-> 0,
     pattern_updates |-> 0, pattern_uploads |-> 0, panic |-> None]

\* UploadStage::run, upload_stage.rs:24-76, as a function of the context.
upload_run(st, cache, cam, pool_state, index, tvp_state, pat, globals_state, count) ==
    LET view_region == ViewRegionOf(cam)
        writes == IF globals_guard(globals_state) THEN 1 ELSE 0
        acc0 == [index |-> index, allocs |-> <<>>, count |-> count,
                 visited |-> <<>>, reported |-> NoReport, panic |-> None]
        acc == IF has_view_region(view_region)
               THEN upload_tile_geometry(acc0, pool_state, cache, st, view_region)
               ELSE acc0
        updates == has_view_region(view_region) /\ acc.panic = None
                       /\ pattern_guard(tvp_state, pool_state)
    IN  [index |-> acc.index,
         count |-> acc.count,
         pattern |-> IF updates
                     THEN update_pattern(view_region,
                                         index_seen_by_pattern(index, acc.index))
                     ELSE pat,
         panic |-> acc.panic,
         view_region |-> view_region,
         visited |-> acc.visited,
         reported |-> acc.reported,
         allocs |-> acc.allocs,
         globals_writes |-> writes,
         pattern_updates |-> IF updates THEN 1 ELSE 0,
         pattern_uploads |-> IF updates THEN 1 ELSE 0]

----------------------------------------------------------------------------
(* The schedule *)

\* register_render_stages, mod.rs:51-56: the labels in registration order.
register_render_stages == <<"Prepare", "Queue", "PhaseSort", "Render">>

\* The stage registered under each label; PrepareStage is the multi stage of
\* mod.rs:49.
StageOf(label) ==
    IF label = "Prepare" THEN <<"upload", "resource">>
    ELSE IF label = "Queue" THEN <<"queue">>
    ELSE IF label = "PhaseSort" THEN <<"phase_sort">>
    ELSE <<"graph_runner">>

schedule == register_render_stages

FirstPc == <<1, 1>>

\* A panic of a stage ends the program.
Running == run.panic = None

AtFrameStart == Running /\ pc = FirstPc

CurrentStage == StageOf(schedule[pc[1]])[pc[2]]

\* Schedule::run: the position after the current sub-stage, and the labels
\* completed by then.
NextPc ==
    IF pc[2] < Len(StageOf(schedule[pc[1]])) THEN <<pc[1], pc[2] + 1>>
    ELSE IF pc[1] < Len(schedule) THEN <<pc[1] + 1, 1>>
    ELSE FirstPc

StageCompletes == pc[2] = Len(StageOf(schedule[pc[1]]))

Advance ==
    /\ pc' = NextPc
    /\ executed' = IF StageCompletes THEN Append(executed, schedule[pc[1]])
                   ELSE executed

----------------------------------------------------------------------------
(* lib.rs: MapBuilder and UninitializedMap *)

\* The Option fields of MapBuilder, lib.rs:151-158.
BuilderFields ==
    {"schedule_method", "scheduler", "http_client", "style",
     "map_window_config", "wgpu_settings", "renderer_settings"}

\* MapBuilder::new, lib.rs:167-177: every field is None.
NewBuilder == [f \in BuilderFields |-> FALSE]

NoMap == [state |-> "MapBuilder", renderer |-> None, renderer_error |-> FALSE,
          panic |-> None]

\* MapBuilder::build, lib.rs:215-229: the unwrap that panics, in evaluation
\* order, or None; style and the two settings fall back to their defaults.
build_panic(b) ==
    IF ~b["scheduler"] /\ ~b["schedule_method"] THEN "schedule_method.unwrap"
    ELSE IF ~b["http_client"] THEN "http_client.unwrap"
    ELSE IF ~b["map_window_config"] THEN "map_window_config.unwrap"
    ELSE None

\* UninitializedMap::initialize, lib.rs:124-130: Renderer::initialize(..)
\* .await.ok() turns the Result into an Option.
renderer_of(result) == IF result = "Ok" THEN "Some" ELSE None

----------------------------------------------------------------------------
(* Actions *)

\* The frame loop starts on a map that was built and initialized with a
\* renderer.
Init ==
    /\ builder = [f \in BuilderFields |-> TRUE]
    /\ map = [state |-> "Map", renderer |-> "Some", renderer_error |-> FALSE,
              panic |-> None]
    /\ style \in Styles
    /\ tile_cache = [t \in Tiles |-> <<>>]
    /\ camera \in Cameras
    /\ buffer_pool = Uninitialized
    /\ pool_index = [t \in Tiles |-> {}]
    /\ tile_view_pattern = Uninitialized
    /\ pattern = {}
    /\ globals_bind_group = Uninitialized
    /\ alloc_count = [t \in Tiles |-> [i \in StyleIndexes |-> 0]]
    /\ stable = FALSE
    /\ pc = FirstPc
    /\ executed = <<>>
    /\ run = NoRun

\* A tick begins with the Prepare stage's first sub-stage: UploadStage::run.
UploadStageRun ==
    /\ Running
    /\ CurrentStage = "upload"
    /\ LET r == upload_run(style, tile_cache, camera, buffer_pool, pool_index,
                           tile_view_pattern, pattern, globals_bind_group,
                           alloc_count)
       IN  /\ pool_index' = r.index
           /\ alloc_count' = r.count
           /\ pattern' = r.pattern
           /\ run' = [ran |-> TRUE, view_region |-> r.view_region,
                      stable |-> stable,
                      index_before |-> pool_index, pattern_before |-> pattern,
                      visited |-> r.visited, reported |-> r.reported,
                      allocs |-> r.allocs,
                      globals_writes |-> r.globals_writes,
                      pattern_updates |-> r.pattern_updates,
                      pattern_uploads |-> r.pattern_uploads,
                      panic |-> r.panic]
           /\ stable' = (r.panic = None /\ buffer_pool = Initialized)
           /\ pc' = IF r.panic = None THEN NextPc ELSE pc
           /\ executed' = <<>>
    /\ UNCHANGED <<builder, map>>
    /\ UNCHANGED <<style, tile_cache, camera, buffer_pool, tile_view_pattern,
                   globals_bind_group>>

\* Eventually::initialize under the resource stage: a resource that is not
\* Initialized yet stays, starts or completes its setup.
InitSteps(e) ==
    IF e = Uninitialized THEN {Uninitialized, Initializing, Initialized}
    ELSE IF e = Initializing THEN {Initializing, Initialized}
    ELSE {Initialized}

\* ResourceStage::run, the second sub-stage of PrepareStage.
ResourceStageRun ==
    /\ Running
    /\ CurrentStage = "resource"
    /\ buffer_pool' \in InitSteps(buffer_pool)
    /\ tile_view_pattern' \in InitSteps(tile_view_pattern)
    /\ globals_bind_group' \in InitSteps(globals_bind_group)
    /\ Advance
    /\ run' = NoRun
    /\ UNCHANGED <<builder, map>>
    /\ UNCHANGED <<style, tile_cache, camera, pool_index, pattern, alloc_count,
                   stable>>

QueueStageRun ==
    /\ Running
    /\ CurrentStage = "queue"
    /\ Advance
    /\ UNCHANGED <<builder, map>>
    /\ UNCHANGED <<style, tile_cache, camera, buffer_pool, pool_index,
                   tile_view_pattern, pattern, globals_bind_group, alloc_count,
                   stable, run>>

PhaseSortStageRun ==
    /\ Running
    /\ CurrentStage = "phase_sort"
    /\ Advance
    /\ UNCHANGED <<builder, map>>
    /\ UNCHANGED <<style, tile_cache, camera, buffer_pool, pool_index,
                   tile_view_pattern, pattern, globals_bind_group, alloc_count,
                   stable, run>>

\* The last registered stage ends the tick.
GraphRunnerStageRun ==
    /\ Running
    /\ CurrentStage = "graph_runner"
    /\ Advance
    /\ UNCHANGED <<builder, map>>
    /\ UNCHANGED <<style, tile_cache, camera, buffer_pool, pool_index,
                   tile_view_pattern, pattern, globals_bind_group, alloc_count,
                   stable, run>>

CacheSize(cache) ==
    Cardinality({<<t, i>> \in Tiles \X (1..Cardinality(LayerNames)) :
                    i <= Len(cache[t])})

\* The tessellation pipeline delivers the result of a (tile, layer), once per
\* pair, between two ticks: TileCache::put_tessellated_layer.
TileCacheInsert ==
    /\ AtFrameStart
    /\ CacheSize(tile_cache) < MaxCacheLayers
    /\ \E message \in Messages :
        /\ \A i \in 1..Len(tile_cache[message.coords]) :
               tile_cache[message.coords][i].layer_name # message.layer_name
        /\ tile_cache' = [tile_cache EXCEPT ![message.coords] = Append(@, message)]
    /\ stable' = FALSE
    /\ UNCHANGED <<builder, map>>
    /\ UNCHANGED <<style, camera, buffer_pool, pool_index, tile_view_pattern,
                   pattern, globals_bind_group, alloc_count, pc, executed, run>>

\* The window collaborator moves the camera between two ticks.
CameraMove ==
    /\ AtFrameStart
    /\ \E cam \in Cameras \ {camera} : camera' = cam
    /\ stable' = FALSE
    /\ UNCHANGED <<builder, map>>
    /\ UNCHANGED <<style, tile_cache, buffer_pool, pool_index, tile_view_pattern,
                   pattern, globals_bind_group, alloc_count, pc, executed, run>>

\* The pool's eviction: the entries of a tile outside the view region go.
PoolEvict ==
    /\ AtFrameStart
    /\ buffer_pool = Initialized
    /\ \E t \in Tiles :
        /\ pool_index[t] # {}
        /\ t \notin Range(ViewRegionOf(camera).value)
        /\ pool_index' = [pool_index EXCEPT ![t] = {}]
        /\ alloc_count' = [alloc_count EXCEPT ![t] = [i \in StyleIndexes |-> 0]]
    /\ stable' = FALSE
    /\ UNCHANGED <<builder, map>>
    /\ UNCHANGED <<style, tile_cache, camera, buffer_pool, tile_view_pattern,
                   pattern, globals_bind_group, pc, executed, run>>

Next ==
    \/ UploadStageRun
    \/ ResourceStageRun
    \/ QueueStageRun
    \/ PhaseSortStageRun
    \/ GraphRunnerStageRun
    \/ TileCacheInsert
    \/ CameraMove
    \/ PoolEvict

Spec == Init /\ [][Next]_vars

----------------------------------------------------------------------------
(* Building and initializing the map *)

frame_vars == <<style, tile_cache, camera, buffer_pool, pool_index,
                tile_view_pattern, pattern, globals_bind_group, alloc_count,
                stable, pc, executed, run>>

InitBuild ==
    /\ builder = NewBuilder
    /\ map = NoMap
    /\ style = <<StyleLayer(0, "water", "c0")>>
    /\ tile_cache = [t \in Tiles |-> <<>>]
    /\ camera = "west"
    /\ buffer_pool = Uninitialized
    /\ pool_index = [t \in Tiles |-> {}]
    /\ tile_view_pattern = Uninitialized
    /\ pattern = {}
    /\ globals_bind_group = Uninitialized
    /\ alloc_count = [t \in Tiles |-> [i \in StyleIndexes |-> 0]]
    /\ stable = FALSE
    /\ pc = FirstPc
    /\ executed = <<>>
    /\ run = NoRun

\* MapBuilder::with_*, lib.rs:179-212: the field becomes Some.
BuilderWith ==
    /\ map.state = "MapBuilder"
    /\ \E f \in BuilderFields : builder' = [builder EXCEPT ![f] = TRUE]
    /\ UNCHANGED map
    /\ UNCHANGED frame_vars

\* MapBuilder::build, lib.rs:215-229.
BuilderBuild ==
    /\ map.state = "MapBuilder"
    /\ LET p == build_panic(builder)
       IN  map' = IF p = None
                  THEN [map EXCEPT !.state = "UninitializedMap"]
                  ELSE [map EXCEPT !.state = "panicked", !.panic = p]
    /\ UNCHANGED builder
    /\ UNCHANGED frame_vars

\* UninitializedMap::initialize, lib.rs:117-144: a Map is returned whatever
\* Renderer::initialize returned.
MapInitialize ==
    /\ map.state = "UninitializedMap"
    /\ \E result \in {"Ok", "Err"} :
           map' = [map EXCEPT !.state = "Map",
                              !.renderer = renderer_of(result),
                              !.renderer_error = (result = "Err")]
    /\ UNCHANGED builder
    /\ UNCHANGED frame_vars

NextBuild ==
    \/ BuilderWith
    \/ BuilderBuild
    \/ MapInitialize

SpecBuild == InitBuild /\ [][NextBuild]_vars

----------------------------------------------------------------------------
(* Properties *)

\* The state right after an Upload run (the run record is cleared by the next
\* sub-stage; after a panic it stays).
AfterUpload == run.ran

Allocs == {run.allocs[i] : i \in 1..Len(run.allocs)}

\* The cache holds a result of that kind for (coords, layer_name).
Cached(kind, coords, layer_name) ==
    \E i \in 1..Len(tile_cache[coords]) :
        /\ tile_cache[coords][i].kind = kind
        /\ tile_cache[coords][i].layer_name = layer_name

SourceLayers == {style[i].source_layer : i \in 1..Len(style)}

\* C1: in every Upload run, no allocate_layer_geometry call is for a layer
\* name that get_loaded_layers_at reported as resident for that tile in the
\* run.
C1_NeverAllocatesReportedLayer ==
    AfterUpload =>
        \A a \in Allocs : a.layer_name \notin run.reported[a.coords]

\* C1 witness: a run allocated a layer of a tile for which the pool reported
\* another layer resident.
C1_Witness ==
    /\ AfterUpload
    /\ \E a \in Allocs : run.reported[a.coords] # {}

\* allocate_layer_geometry calls for (coords, layer_name) since the tile was
\* last evicted.
AllocsOfName(coords, layer_name) ==
    LET n(i) == IF i + 1 <= Len(style) /\ style[i + 1].source_layer = layer_name
                THEN alloc_count[coords][i] ELSE 0
    IN  n(0) + n(1)

\* C2 as stated: with no eviction in between, allocate_layer_geometry is
\* invoked at most once per (tile coordinate, layer name), for every style.
C2_AtMostOncePerLayerName ==
    \A t \in Tiles : \A n \in LayerNames : AllocsOfName(t, n) <= 1

\* C2 as amended: with no eviction in between, allocate_layer_geometry is
\* invoked at most once per (tile coordinate, style layer); a layer name is
\* allocated once for each style layer that names it as its source layer.
C2_AtMostOncePerStyleLayer ==
    \A t \in Tiles : \A i \in StyleIndexes : alloc_count[t][i] <= 1

\* C2 witness: a run visited a tile whose layer was allocated by an earlier
\* run and is still resident, and allocated nothing for it.
C2_Witness ==
    /\ AfterUpload
    /\ \E t \in Range(run.visited) :
        /\ run.index_before[t] # {}
        /\ alloc_count[t][0] = 1
        /\ \A a \in Allocs : a.coords # t

\* C3: an Upload run that follows a completed run with an Initialized pool,
\* with no cache insert, camera move or eviction in between, calls
\* allocate_layer_geometry zero times.
C3_SecondRunAllocatesNothing ==
    (AfterUpload /\ run.stable) => run.allocs = <<>>

\* C3 witness: such a second run visited a tile that holds a Tessellated
\* result which the first run made resident.
C3_Witness ==
    /\ AfterUpload
    /\ run.stable
    /\ \E t \in Range(run.visited) : \E n \in run.index_before[t] :
           Cached("TessellatedLayer", t, n)

\* C4 as stated: after an Upload run with an Initialized, initially empty
\* pool, for every tile of the view region and every style layer, the source
\* layer is resident if the cache holds a Tessellated result for it and not
\* resident if the cache holds an Unavailable result or none.
C4_ResidentIffTessellated ==
    ( /\ AfterUpload
      /\ buffer_pool = Initialized
      /\ run.view_region.is_some
      /\ \A t \in Tiles : run.index_before[t] = {} )
    => \A t \in Range(run.view_region.value) : \A n \in SourceLayers :
           (n \in pool_index[t]) <=> Cached("TessellatedLayer", t, n)

\* C5 as stated: a tick runs Prepare, Queue, PhaseSort, Render and Cleanup,
\* once each and in that order.
C5_TickRunsFiveStages ==
    (pc = FirstPc /\ executed # <<>>)
    => executed = <<"Prepare", "Queue", "PhaseSort", "Render", "Cleanup">>

C7_AllocatesOnlyInView ==
    AfterUpload =>
        \A a \in Allocs :
            run.view_region.is_some /\ a.coords \in Range(run.view_region.value)

\* C7 witness: a run allocated, and the cache holds a Tessellated result of a
\* style layer's source layer for a tile outside the view region that is not
\* resident.
C7_Witness ==
    /\ AfterUpload
    /\ run.allocs # <<>>
    /\ \E t \in Tiles \ Range(run.view_region.value) : \E n \in SourceLayers :
        /\ Cached("TessellatedLayer", t, n)
        /\ n \notin pool_index[t]

\* C8: an Upload run that finds the globals bind group Initialized writes
\* the shader globals exactly once, with or without a view region and
\* whatever the state of the buffer pool.
C8_GlobalsWrittenOnce ==
    (AfterUpload /\ globals_bind_group = Initialized) => run.globals_writes = 1

\* C8 witness: the globals were written in a run without a view region and
\* with a pool that is not Initialized.
C8_Witness ==
    /\ AfterUpload
    /\ globals_bind_group = Initialized
    /\ run.globals_writes = 1
    /\ ~run.view_region.is_some
    /\ buffer_pool # Initialized

C10_NoViewRegionNoEffect ==
    (AfterUpload /\ ~run.view_region.is_some) =>
        /\ run.panic = None
        /\ run.allocs = <<>>
        /\ pool_index = run.index_before
        /\ run.pattern_updates = 0
        /\ run.pattern_uploads = 0
        /\ pattern = run.pattern_before

\* C10 witness: such a run with an Initialized pool and pattern, a non-empty
\* pattern and a Tessellated result in the cache that is not resident.
C10_Witness ==
    /\ AfterUpload
    /\ ~run.view_region.is_some
    /\ buffer_pool = Initialized
    /\ tile_view_pattern = Initialized
    /\ pattern # {}
    /\ \E t \in Tiles : \E n \in SourceLayers :
        /\ Cached("TessellatedLayer", t, n)
        /\ n \notin pool_index[t]

\* A required field of the builder was never supplied.
RequiredFieldMissing ==
    \/ ~builder["http_client"]
    \/ ~builder["map_window_config"]
    \/ ~builder["scheduler"] /\ ~builder["schedule_method"]

\* C11 as stated: building from a MapBuilder that lacks the HTTP client, the
\* map window config, or both the scheduler and the schedule method ends in a
\* reported configuration error, not in a panic.
C11_MissingFieldIsReported ==
    (map.state # "MapBuilder" /\ RequiredFieldMissing)
        => map.state = "ConfigurationError"

\* C12 as stated: when Renderer::initialize fails, the caller of initialize
\* observes the failure: no Map is returned.
C12_RendererFailurePropagates ==
    map.renderer_error => map.state # "Map"

\* The Upload run of the current context, for given Eventually tags.
UploadWith(pool_state, tvp_state, globals_state) ==
    upload_run(style, tile_cache, camera, pool_state, pool_index, tvp_state,
               pattern, globals_state, alloc_count)

\* C13 as stated: at the start of every tick, first frame included, running
\* Upload and then Resource-init leaves the same pool, pattern and allocation
\* calls as running Resource-init and then Upload.
C13_PrepareOrderNotObservable ==
    (Running /\ CurrentStage = "upload") =>
        \A p \in InitSteps(buffer_pool) :
        \A v \in InitSteps(tile_view_pattern) :
        \A g \in InitSteps(globals_bind_group) :
            LET first == UploadWith(buffer_pool, tile_view_pattern,
                                    globals_bind_group)
                second == UploadWith(p, v, g)
            IN  /\ first.index = second.index
                /\ first.pattern = second.pattern
                /\ first.allocs = second.allocs

\* C14 as stated, at the latest after the next Upload run: after an Upload
\* run with an Initialized pool, every tile of the view region for which the
\* cache holds a Tessellated result of a style layer's source layer has that
\* layer resident.
C14_TessellatedInViewIsResident ==
    (AfterUpload /\ buffer_pool = Initialized) =>
        \A t \in Range(run.view_region.value) : \A n \in SourceLayers :
            Cached("TessellatedLayer", t, n) => n \in pool_index[t]

\* The tiles of the run's view region for which the cache has no entry.
Misses == {t \in Range(run.view_region.value) : tile_cache[t] = <<>>}

\* The geometry upload of the run, had the view region not held the tiles the
\* cache misses.
RunWithoutMisses ==
    upload_tiles([index |-> run.index_before, allocs |-> <<>>,
                  count |-> [t \in Tiles |-> [i \in StyleIndexes |-> 0]],
                  visited |-> <<>>, reported |-> NoReport, panic |-> None],
                 tile_cache, style,
                 SelectSeq(run.view_region.value, LAMBDA t : t \notin Misses))

C16_RunCompletesWithoutColor ==
    AfterUpload => run.panic = None

RECURSIVE Sum(_)
Sum(counts) == IF counts = <<>> THEN 0 ELSE Head(counts) + Sum(Tail(counts))

\* C17: the feature metadata passed to allocate_layer_geometry for a
\* Tessellated layer with index counts n_1..n_k and a style layer of paint
\* colour c has n_1 + ... + n_k entries, all equal to c.
C17_FeatureMetadataReplicated ==
    AfterUpload =>
        \A a \in Allocs :
            LET counts == FeatureIndicesOf(a.coords, a.layer_name)
                c == style[a.style_layer + 1].color
            IN  /\ Len(a.feature_metadata) = Sum(counts)
                /\ \A i \in 1..Len(a.feature_metadata) : a.feature_metadata[i] = c

\* C17 witness: an allocation for the layer with index counts <<2, 3>>, with
\* five entries of metadata.
C17_Witness ==
    /\ AfterUpload
    /\ \E a \in Allocs :
        /\ FeatureIndicesOf(a.coords, a.layer_name) = <<2, 3>>
        /\ Len(a.feature_metadata) = 5
        /\ a.feature_metadata[1] # None

\* C18: every allocation is of a cached result whose layer name is the
\* source layer of some style layer; a layer no style layer names is never
\* resident.
C18_AllocatesOnlyStyleLayers ==
    /\ AfterUpload => \A a \in Allocs : a.layer_name \in SourceLayers
    /\ \A t \in Tiles : pool_index[t] \subseteq SourceLayers

\* C18 witness: a run allocated for a tile whose cache entry also holds a
\* Tessellated result of a layer no style layer names.
C18_Witness ==
    /\ AfterUpload
    /\ \E a \in Allocs : \E n \in LayerNames \ SourceLayers :
           Cached("TessellatedLayer", a.coords, n)

\* C19: in an Upload run the tile view pattern is updated after the run's
\* geometry allocations, so it holds every tile allocated in the run; it is
\* updated and uploaded, once each, exactly in the runs that have a view
\* region, complete the geometry upload and find both the tile view pattern
\* and the buffer pool Initialized.
C19_PatternAfterAllocations ==
    AfterUpload =>
        /\ run.pattern_uploads = run.pattern_updates
        /\ run.pattern_updates = 1 =>
               /\ tile_view_pattern = Initialized
               /\ buffer_pool = Initialized
               /\ run.view_region.is_some
               /\ \A a \in Allocs : a.coords \in pattern
               /\ pattern = update_pattern(run.view_region, pool_index)
        /\ run.pattern_updates = 0 =>
               \/ tile_view_pattern # Initialized
               \/ buffer_pool # Initialized
               \/ ~run.view_region.is_some
               \/ run.panic # None

\* C19 witness: the pattern was updated in a run that allocated a tile the
\* pattern did not hold before.
C19_Witness ==
    /\ AfterUpload
    /\ run.pattern_updates = 1
    /\ \E a \in Allocs : a.coords \notin run.pattern_before

====
